---------------------------- MODULE Spec2Model ----------------------------
(***************************************************************************)
(* Model of temp_dir.py: the context manager in_temp_dir and the decorator *)
(* within_temp_dir.                                                        *)
(*                                                                         *)
(* The process has one current working directory (cwd) and a filesystem    *)
(* of directories.  Every invocation of in_temp_dir is a generator frame   *)
(* with its own locals original_directory and temporary_directory and its  *)
(* own position (pc); invocations are numbered 1, 2, ... in call order.    *)
(* Every library call of the source (os.getcwd, tempfile.mkdtemp,          *)
(* os.chdir, shutil.rmtree) is one step and may be rejected by the host.   *)
(* An exception is a sequence of error names: its head is the exception    *)
(* that propagates, its tail the chain of exceptions that were being       *)
(* handled when it was raised (Python's __context__).                      *)
(***************************************************************************)
EXTENDS Naturals, Integers, Sequences, FiniteSets, TLC

\* ------------------------------------------------------------- bounds
\* Number of invocations of in_temp_dir in one run.
MaxScopes == 2
\* Number of names tempfile.mkdtemp can pick from.
NumTmpNames == 2
\* Number of ordinary directories the caller can stand in.
NumHomeDirs == 2

\* ------------------------------------------------------------- values
ScopeIds == 1..MaxScopes
HomeDirs == {<<"home", i>> : i \in 1..NumHomeDirs}
TmpPaths == {<<"tmp", i>> : i \in 1..NumTmpNames}
AllPaths == HomeDirs \cup TmpPaths
FileNames == {"data.txt"}
\* A local that has not been assigned yet.
NoPath == <<>>
\* The thread of a sequential program.
MainThread == "main"
Threads == {MainThread}

\* What the decorated callable can be called with: positional arguments and
\* keyword arguments (a set of <<name, value>>).
Calls == { [args |-> <<3>>, kwargs |-> {}],
           [args |-> <<1, 4>>, kwargs |-> {}],
           [args |-> <<1>>, kwargs |-> {<<"y", 7>>}] }
NoCall == [args |-> <<>>, kwargs |-> {}]
NoValue == <<>>

VARIABLES
    cwd,                  \* the process's current working directory
    fs_exists,            \* the directories that exist
    fs_files,             \* the files in each directory
    next_scope,           \* number of the next invocation of in_temp_dir
    stack,                \* per thread: the invocations in progress, innermost last
    pc,                   \* per invocation: position in in_temp_dir
    via,                  \* per invocation: "with" statement or "decorated" call
    original_directory,   \* per invocation: local of in_temp_dir
    temporary_directory,  \* per invocation: local of in_temp_dir
    exc,                  \* per invocation: the exception propagating, with its context chain
    log,                  \* per invocation: the steps attempted so far, <<step, succeeded, cwd after>>
    call,                 \* per invocation: arguments the decorated callable was called with
    func_calls,           \* per invocation: the calls func received, with the cwd at the call
    ret,                  \* per invocation: <<v>> once func returned v inside the block
    wrapped               \* within_temp_dir(func) has been applied: decorated exists

vars == <<cwd, fs_exists, fs_files, next_scope, stack, pc, via, original_directory,
          temporary_directory, exc, log, call, func_calls, ret, wrapped>>

\* ------------------------------------------------------------- helpers
\* Mutant: the exception being handled is lost (no __context__).
Raise_NoContext(e, ctx) == <<e>>

\* raise e while the exception chain ctx is being handled
Raise(e, ctx) == <<e>> \o ctx

Top(t) == stack[t][Len(stack[t])]
Running(t, p) == stack[t] # <<>> /\ pc[Top(t)] = p
\* log entry: the step, whether it succeeded, and the cwd it left
Logged(n, step, ok, dir) == log' = [log EXCEPT ![n] = Append(@, <<step, ok, dir>>)]

\* The decorated callable of the scenario: f(x, y=2) returns x + y.
func(args, kwargs) ==
    LET x == args[1]
        y == IF Len(args) >= 2 THEN args[2]
             ELSE IF \E kv \in kwargs : kv[1] = "y"
                  THEN (CHOOSE kv \in kwargs : kv[1] = "y")[2]
                  ELSE 2
    IN  x + y

\* ------------------------------------------------------------- initial state
Init ==
    /\ cwd \in HomeDirs
    /\ fs_exists = HomeDirs
    /\ fs_files = [p \in AllPaths |-> {}]
    /\ next_scope = 1
    /\ stack = [t \in Threads |-> <<>>]
    /\ pc = [n \in ScopeIds |-> "new"]
    /\ via = [n \in ScopeIds |-> "none"]
    /\ original_directory = [n \in ScopeIds |-> NoPath]
    /\ temporary_directory = [n \in ScopeIds |-> NoPath]
    /\ exc = [n \in ScopeIds |-> <<>>]
    /\ log = [n \in ScopeIds |-> <<>>]
    /\ call = [n \in ScopeIds |-> NoCall]
    /\ func_calls = [n \in ScopeIds |-> <<>>]
    /\ ret = [n \in ScopeIds |-> NoValue]
    /\ wrapped = TRUE

\* Two threads of one process: the cwd and the filesystem are shared, each
\* thread has its own call stack.
WorkerThread == "worker"
AllThreads == {MainThread, WorkerThread}
\* the cwd of the process before any thread enters a scope
StartDirectory == CHOOSE d \in HomeDirs : TRUE

InitThreads ==
    /\ cwd = StartDirectory
    /\ fs_exists = HomeDirs
    /\ fs_files = [p \in AllPaths |-> {}]
    /\ next_scope = 1
    /\ stack = [t \in AllThreads |-> <<>>]
    /\ pc = [n \in ScopeIds |-> "new"]
    /\ via = [n \in ScopeIds |-> "none"]
    /\ original_directory = [n \in ScopeIds |-> NoPath]
    /\ temporary_directory = [n \in ScopeIds |-> NoPath]
    /\ exc = [n \in ScopeIds |-> <<>>]
    /\ log = [n \in ScopeIds |-> <<>>]
    /\ call = [n \in ScopeIds |-> NoCall]
    /\ func_calls = [n \in ScopeIds |-> <<>>]
    /\ ret = [n \in ScopeIds |-> NoValue]
    /\ wrapped = TRUE

\* The module is being loaded: within_temp_dir has not been applied yet.
InitDecorator ==
    /\ cwd \in HomeDirs
    /\ fs_exists = HomeDirs
    /\ fs_files = [p \in AllPaths |-> {}]
    /\ next_scope = 1
    /\ stack = [t \in Threads |-> <<>>]
    /\ pc = [n \in ScopeIds |-> "new"]
    /\ via = [n \in ScopeIds |-> "none"]
    /\ original_directory = [n \in ScopeIds |-> NoPath]
    /\ temporary_directory = [n \in ScopeIds |-> NoPath]
    /\ exc = [n \in ScopeIds |-> <<>>]
    /\ log = [n \in ScopeIds |-> <<>>]
    /\ call = [n \in ScopeIds |-> NoCall]
    /\ func_calls = [n \in ScopeIds |-> <<>>]
    /\ ret = [n \in ScopeIds |-> NoValue]
    /\ wrapped = FALSE

\* ------------------------------------------------------------- the callers
\* The caller executes "with in_temp_dir():" - a new generator frame.
With(t) ==
    /\ stack[t] = <<>>
    /\ next_scope <= MaxScopes
    /\ next_scope' = next_scope + 1
    /\ stack' = [stack EXCEPT ![t] = Append(@, next_scope)]
    /\ pc' = [pc EXCEPT ![next_scope] = "getcwd"]
    /\ via' = [via EXCEPT ![next_scope] = "with"]
    /\ UNCHANGED <<wrapped, cwd, fs_exists, fs_files, original_directory, temporary_directory,
                   exc, log, call, func_calls, ret>>

\* The caller calls within_temp_dir(func) with (*args, **kwargs): decorated
\* enters "with in_temp_dir():".
Decorated(t) ==
    /\ wrapped
    /\ stack[t] = <<>>
    /\ next_scope <= MaxScopes
    /\ next_scope' = next_scope + 1
    /\ stack' = [stack EXCEPT ![t] = Append(@, next_scope)]
    /\ pc' = [pc EXCEPT ![next_scope] = "getcwd"]
    /\ via' = [via EXCEPT ![next_scope] = "decorated"]
    /\ \E c \in Calls : call' = [call EXCEPT ![next_scope] = c]
    /\ UNCHANGED <<wrapped, cwd, fs_exists, fs_files, original_directory, temporary_directory,
                   exc, log, func_calls, ret>>

\* Mutant: within_temp_dir enters in_temp_dir itself, when it is applied.
WrappingEnters_Eager == TRUE

\* Whether within_temp_dir(func) enters in_temp_dir: it only defines
\* decorated and returns it, the with statement is in decorated's body.
WrappingEnters == FALSE

\* within_temp_dir(func): builds decorated with functools.wraps and returns
\* it.
WithinTempDir(t) ==
    /\ ~wrapped
    /\ wrapped' = TRUE
    /\ IF WrappingEnters
       THEN /\ next_scope' = next_scope + 1
            /\ stack' = [stack EXCEPT ![t] = Append(@, next_scope)]
            /\ pc' = [pc EXCEPT ![next_scope] = "getcwd"]
            /\ via' = [via EXCEPT ![next_scope] = "with"]
       ELSE UNCHANGED <<next_scope, stack, pc, via>>
    /\ UNCHANGED <<cwd, fs_exists, fs_files, original_directory, temporary_directory,
                   exc, log, call, func_calls, ret>>

\* The block of a with statement executes "with in_temp_dir():" itself: a
\* new generator frame inside the running one.
NestedWith(t) ==
    /\ Running(t, "block")
    /\ next_scope <= MaxScopes
    /\ next_scope' = next_scope + 1
    /\ stack' = [stack EXCEPT ![t] = Append(@, next_scope)]
    /\ pc' = [pc EXCEPT ![next_scope] = "getcwd"]
    /\ via' = [via EXCEPT ![next_scope] = "with"]
    /\ UNCHANGED <<wrapped, cwd, fs_exists, fs_files, original_directory, temporary_directory,
                   exc, log, call, func_calls, ret>>

\* ------------------------------------------------------------- in_temp_dir
\* original_directory = os.getcwd(); rejected when the cwd no longer exists.
Getcwd(t) ==
    /\ Running(t, "getcwd")
    /\ LET n == Top(t) IN
         \/ /\ cwd \in fs_exists
            /\ original_directory' = [original_directory EXCEPT ![n] = cwd]
            /\ pc' = [pc EXCEPT ![n] = "mkdtemp"]
            /\ Logged(n, "getcwd", TRUE, cwd)
            /\ UNCHANGED exc
         \/ /\ cwd \notin fs_exists
            /\ exc' = [exc EXCEPT ![n] = Raise("GetcwdError", @)]
            /\ pc' = [pc EXCEPT ![n] = "exit"]
            /\ Logged(n, "getcwd", FALSE, cwd)
            /\ UNCHANGED original_directory
    /\ UNCHANGED <<wrapped, cwd, fs_exists, fs_files, next_scope, stack, via,
                   temporary_directory, call, func_calls, ret>>

\* Mutant: a fixed or guessable name, which may exist already.
MkdtempNames_Any == TmpPaths

\* The names tempfile.mkdtemp may return: any name that does not exist.
MkdtempNames == TmpPaths \ fs_exists

\* temporary_directory = tempfile.mkdtemp(): a new empty directory, or an error.
Mkdtemp(t) ==
    /\ Running(t, "mkdtemp")
    /\ LET n == Top(t) IN
         \/ \E d \in MkdtempNames :
               /\ fs_exists' = fs_exists \cup {d}
               /\ temporary_directory' = [temporary_directory EXCEPT ![n] = d]
               /\ pc' = [pc EXCEPT ![n] = "chdir"]
               /\ Logged(n, "mkdtemp", TRUE, cwd)
               /\ UNCHANGED exc
         \/ /\ exc' = [exc EXCEPT ![n] = Raise("CreationError", @)]
            /\ pc' = [pc EXCEPT ![n] = "exit"]
            /\ Logged(n, "mkdtemp", FALSE, cwd)
            /\ UNCHANGED <<fs_exists, temporary_directory>>
    /\ UNCHANGED <<wrapped, cwd, fs_files, next_scope, stack, via, original_directory, call,
                   func_calls, ret>>

\* (variant: os.chdir(temporary_directory) inside the try statement)
AfterChdirInFailed_InTry == "restore"

\* Where in_temp_dir goes after os.chdir(temporary_directory) was rejected:
\* the call is before the try statement, the exception leaves the generator.
AfterChdirInFailed == "exit"

\* os.chdir(temporary_directory)
ChdirIn(t) ==
    /\ Running(t, "chdir")
    /\ LET n == Top(t) IN
         \/ /\ temporary_directory[n] \in fs_exists
            /\ cwd' = temporary_directory[n]
            /\ pc' = [pc EXCEPT ![n] = "yield"]
            /\ Logged(n, "chdir", TRUE, temporary_directory[n])
            /\ UNCHANGED exc
         \/ /\ exc' = [exc EXCEPT ![n] = Raise("DirectoryChangeError", @)]
            /\ pc' = [pc EXCEPT ![n] = AfterChdirInFailed]
            /\ Logged(n, "chdir", FALSE, cwd)
            /\ UNCHANGED cwd
    /\ UNCHANGED <<wrapped, fs_exists, fs_files, next_scope, stack, via, original_directory,
                   temporary_directory, call, func_calls, ret>>

\* Mutant: decorated calls func(*args).
PassedArgs_NoKwargs(c) == [args |-> c.args, kwargs |-> {}]

\* The arguments decorated passes on: func(*args, **kwargs).
PassedArgs(c) == [args |-> c.args, kwargs |-> c.kwargs]

\* yield temporary_directory: the block begins; in decorated the block is
\* "return func(*args, **kwargs)", which calls func.
Yield(t) ==
    /\ Running(t, "yield")
    /\ LET n == Top(t) IN
         /\ pc' = [pc EXCEPT ![n] = "block"]
         /\ Logged(n, "yield", TRUE, cwd)
         /\ func_calls' = [func_calls EXCEPT ![n] =
                IF via[n] = "decorated"
                THEN Append(@, [passed |-> PassedArgs(call[n]), cwd |-> cwd])
                ELSE @]
    /\ UNCHANGED <<wrapped, cwd, fs_exists, fs_files, next_scope, stack, via,
                   original_directory, temporary_directory, exc, call, ret>>

\* ------------------------------------------------------------- the block
\* What the block (the body of the with statement, or func) does is the
\* caller's: it may change directory, write files and remove directories.
BlockChdir(t) ==
    /\ Running(t, "block")
    /\ \E d \in fs_exists : d # cwd /\ cwd' = d
    /\ UNCHANGED <<wrapped, fs_exists, fs_files, next_scope, stack, pc, via, original_directory,
                   temporary_directory, exc, log, call, func_calls, ret>>

\* open(name, "w") with a relative name: a file in the current directory.
BlockWrite(t) ==
    /\ Running(t, "block")
    /\ cwd \in fs_exists
    /\ \E f \in FileNames :
          /\ f \notin fs_files[cwd]
          /\ fs_files' = [fs_files EXCEPT ![cwd] = @ \cup {f}]
    /\ UNCHANGED <<wrapped, cwd, fs_exists, next_scope, stack, pc, via, original_directory,
                   temporary_directory, exc, log, call, func_calls, ret>>

\* The block removes a temporary directory (its own one, or one left behind).
BlockRemove(t) ==
    /\ Running(t, "block")
    /\ \E d \in fs_exists \cap TmpPaths :
          /\ fs_exists' = fs_exists \ {d}
          /\ fs_files' = [fs_files EXCEPT ![d] = {}]
    /\ UNCHANGED <<wrapped, cwd, next_scope, stack, pc, via, original_directory,
                   temporary_directory, exc, log, call, func_calls, ret>>

\* Mutant: no outer try/finally, an exception of the block leaves the generator.
AfterBlock_NoTry(raised) == IF raised THEN "exit" ELSE "restore"

\* Where in_temp_dir continues when the block has finished: the outer
\* "finally:" runs whether the block raised or not.
AfterBlock(raised) == "restore"

\* The block finishes normally; in decorated, func returns its value.
BlockReturn(t) ==
    /\ Running(t, "block")
    /\ LET n == Top(t) IN
         /\ pc' = [pc EXCEPT ![n] = AfterBlock(FALSE)]
         /\ Logged(n, "block", TRUE, cwd)
         /\ ret' = [ret EXCEPT ![n] =
                IF via[n] = "decorated"
                THEN LET c == func_calls[n][Len(func_calls[n])].passed
                     IN  <<func(c.args, c.kwargs)>>
                ELSE @]
    /\ UNCHANGED <<wrapped, cwd, fs_exists, fs_files, next_scope, stack, via, original_directory,
                   temporary_directory, exc, call, func_calls>>

\* The block (or func) raises: the exception is thrown into the generator at
\* the yield.
BlockRaise(t) ==
    /\ Running(t, "block")
    /\ LET n == Top(t) IN
         /\ pc' = [pc EXCEPT ![n] = AfterBlock(TRUE)]
         /\ Logged(n, "block", FALSE, cwd)
         /\ exc' = [exc EXCEPT ![n] = Raise("BlockError", @)]
    /\ UNCHANGED <<wrapped, cwd, fs_exists, fs_files, next_scope, stack, via, original_directory,
                   temporary_directory, call, func_calls, ret>>

\* ------------------------------------------------------------- the exit
\* Mutant: no inner try/finally, a rejected restore skips the delete step.
AfterRestore_NoFinally(ok) == IF ok THEN "rmtree" ELSE "exit"

\* Where in_temp_dir continues after os.chdir(original_directory): the inner
\* "finally:" runs whether the chdir raised or not.
AfterRestore(ok) == "rmtree"

\* Mutant: the restore step changes to the wrong directory.
RestoreTarget_Temp(n) == temporary_directory[n]

\* The directory the restore step changes to.
RestoreTarget(n) == original_directory[n]

\* Mutant: the rejected restore is caught and dropped.
RestoreRaises_Swallowed(ctx) == ctx

\* The exception that leaves os.chdir(original_directory) when it is
\* rejected, raised while ctx is being handled.
RestoreRaises(ctx) == Raise("DirectoryChangeError", ctx)

\* os.chdir(original_directory)
Restore(t) ==
    /\ Running(t, "restore")
    /\ LET n == Top(t) IN
         \/ /\ RestoreTarget(n) \in fs_exists
            /\ cwd' = RestoreTarget(n)
            /\ pc' = [pc EXCEPT ![n] = AfterRestore(TRUE)]
            /\ Logged(n, "restore", TRUE, RestoreTarget(n))
            /\ UNCHANGED exc
         \/ /\ exc' = [exc EXCEPT ![n] = RestoreRaises(@)]
            /\ pc' = [pc EXCEPT ![n] = AfterRestore(FALSE)]
            /\ Logged(n, "restore", FALSE, cwd)
            /\ UNCHANGED cwd
    /\ UNCHANGED <<wrapped, fs_exists, fs_files, next_scope, stack, via, original_directory,
                   temporary_directory, call, func_calls, ret>>

\* Mutant: the delete step removes the wrong directory.
RmtreeTarget_Original(n) == original_directory[n]

\* The directory the delete step removes.
RmtreeTarget(n) == temporary_directory[n]

\* Mutant: shutil.rmtree(temporary_directory, ignore_errors=True).
RmtreeRaises_Ignored(ctx) == ctx

\* The exception that leaves shutil.rmtree when it fails, raised while ctx
\* is being handled.
RmtreeRaises(ctx) == Raise("CleanupError", ctx)

\* shutil.rmtree(temporary_directory): removes the tree, or fails (always
\* when the directory is not there) after removing some of the files.
Rmtree(t) ==
    /\ Running(t, "rmtree")
    /\ LET n == Top(t)
           d == RmtreeTarget(n)
       IN
         \/ /\ d \in fs_exists
            /\ fs_exists' = fs_exists \ {d}
            /\ fs_files' = [fs_files EXCEPT ![d] = {}]
            /\ pc' = [pc EXCEPT ![n] = "exit"]
            /\ Logged(n, "rmtree", TRUE, cwd)
            /\ UNCHANGED exc
         \/ /\ exc' = [exc EXCEPT ![n] = RmtreeRaises(@)]
            /\ pc' = [pc EXCEPT ![n] = "exit"]
            /\ Logged(n, "rmtree", FALSE, cwd)
            /\ \E left \in SUBSET fs_files[d] :
                  fs_files' = [fs_files EXCEPT ![d] = left]
            /\ UNCHANGED fs_exists
    /\ UNCHANGED <<wrapped, cwd, next_scope, stack, via, original_directory,
                   temporary_directory, call, func_calls, ret>>

\* The generator is finished: the with statement (and decorated) is left,
\* the caller has the result or the exception.
Return(t) ==
    /\ Running(t, "exit")
    /\ LET n == Top(t) IN
         /\ pc' = [pc EXCEPT ![n] = "returned"]
         /\ stack' = [stack EXCEPT ![t] = SubSeq(@, 1, Len(@) - 1)]
    /\ UNCHANGED <<wrapped, cwd, fs_exists, fs_files, next_scope, via, original_directory,
                   temporary_directory, exc, log, call, func_calls, ret>>

\* What the caller of the invocation n has once it is finished.
Finished(n) == pc[n] \in {"exit", "returned"}
\* The exception the caller receives (<<>>: none), with its context chain.
Received(n) == exc[n]
\* What a call of the decorated callable returns: "return func(...)" inside
\* the with statement returns func's value unless the exit raised.
Returned(n) == IF via[n] = "decorated" /\ Finished(n) /\ exc[n] = <<>>
               THEN ret[n] ELSE NoValue

\* ------------------------------------------------------------- specification
Next ==
    \E t \in Threads :
        \/ With(t)
        \/ Decorated(t)
        \/ Getcwd(t)
        \/ Mkdtemp(t)
        \/ ChdirIn(t)
        \/ Yield(t)
        \/ BlockChdir(t)
        \/ BlockWrite(t)
        \/ BlockRemove(t)
        \/ BlockReturn(t)
        \/ BlockRaise(t)
        \/ Restore(t)
        \/ Rmtree(t)
        \/ Return(t)

Spec == Init /\ [][Next]_vars

\* Nested use: the block of a with statement may enter in_temp_dir again.
NextNested ==
    \E t \in Threads :
        \/ With(t)
        \/ NestedWith(t)
        \/ Getcwd(t)
        \/ Mkdtemp(t)
        \/ ChdirIn(t)
        \/ Yield(t)
        \/ BlockChdir(t)
        \/ BlockWrite(t)
        \/ BlockReturn(t)
        \/ BlockRaise(t)
        \/ Restore(t)
        \/ Rmtree(t)
        \/ Return(t)

SpecNested == Init /\ [][NextNested]_vars

\* Concurrent use: each thread runs "with in_temp_dir(): pass", the steps of
\* the threads interleave in any order.
NextThreads ==
    \E t \in AllThreads :
        \/ With(t)
        \/ Getcwd(t)
        \/ Mkdtemp(t)
        \/ ChdirIn(t)
        \/ Yield(t)
        \/ BlockReturn(t)
        \/ Restore(t)
        \/ Rmtree(t)
        \/ Return(t)

SpecThreads == InitThreads /\ [][NextThreads]_vars

\* The decorator: within_temp_dir is applied to func, then decorated is
\* called any number of times.
NextDecorator ==
    \E t \in Threads :
        \/ WithinTempDir(t)
        \/ Decorated(t)
        \/ Getcwd(t)
        \/ Mkdtemp(t)
        \/ ChdirIn(t)
        \/ Yield(t)
        \/ BlockReturn(t)
        \/ BlockRaise(t)
        \/ Restore(t)
        \/ Rmtree(t)
        \/ Return(t)

SpecDecorator == InitDecorator /\ [][NextDecorator]_vars

\* ------------------------------------------------------------- reading the log
Attempted(n, step) == \E i \in 1..Len(log[n]) : log[n][i][1] = step
Ok(n, step) == \E i \in 1..Len(log[n]) : log[n][i][1] = step /\ log[n][i][2]
Failed(n, step) == \E i \in 1..Len(log[n]) : log[n][i][1] = step /\ ~log[n][i][2]
Count(n, step) == Cardinality({i \in 1..Len(log[n]) : log[n][i][1] = step})
Pos(n, step) == CHOOSE i \in 1..Len(log[n]) : log[n][i][1] = step
Before(n, a, b) == Attempted(n, a) /\ Attempted(n, b) /\ Pos(n, a) < Pos(n, b)
\* the cwd the step left
CwdAfter(n, step) == log[n][Pos(n, step)][3]
\* the block of invocation n was entered
Entered(n) == Ok(n, "yield")
\* the generator of invocation n has just finished: nothing has run since
Exited(n) == pc[n] = "exit"
InChain(e, chain) == \E i \in 1..Len(chain) : chain[i] = e

\* ------------------------------------------------------------- C1
\* C1: after the scope exits (block returned or raised, whatever the block
\* did to the working directory), the cwd is the directory os.getcwd()
\* returned at entry, provided the block was entered and neither chdir failed.
C1_CwdRestored ==
    \A n \in ScopeIds :
        (Exited(n) /\ Entered(n) /\ ~Failed(n, "chdir") /\ ~Failed(n, "restore"))
            => cwd = original_directory[n]

\* The block changed directory and raised, the delete step failed, and the
\* cwd is the original one again.
C1_Witness ==
    \E n \in ScopeIds :
        /\ Exited(n) /\ Failed(n, "block") /\ Ok(n, "restore") /\ Failed(n, "rmtree")
        /\ CwdAfter(n, "block") \notin {temporary_directory[n], original_directory[n]}
        /\ cwd = original_directory[n]

\* ------------------------------------------------------------- C2
\* C2: once the invocation has finished (normally, with a block error, or
\* with an error of its own entry or exit steps), the temporary directory it
\* created no longer exists, provided the delete step did not fail.
C2_TempDirRemoved ==
    \A n \in ScopeIds :
        (Exited(n) /\ Ok(n, "mkdtemp") /\ ~Failed(n, "rmtree"))
            => temporary_directory[n] \notin fs_exists

\* ------------------------------------------------------------- C3
\* C3: on every exit of the block (normal or by error) the restore step is
\* attempted before the delete step, and the delete step is attempted
\* afterwards whether or not the restore step raised; neither is attempted
\* before the block has finished.
C3_RestoreThenDelete ==
    \A n \in ScopeIds :
        /\ (Finished(n) /\ Entered(n)) =>
              /\ Before(n, "block", "restore")
              /\ Before(n, "restore", "rmtree")
              /\ Count(n, "restore") = 1 /\ Count(n, "rmtree") = 1
        /\ Attempted(n, "rmtree") => Before(n, "restore", "rmtree")
        /\ Attempted(n, "restore") => Before(n, "block", "restore")
        /\ (Attempted(n, "block") /\ ~Finished(n)) => pc[n] \in {"restore", "rmtree"}

\* The block raised, the restore step raised, and the delete step was still
\* attempted after it.
C3_Witness ==
    \E n \in ScopeIds :
        /\ Finished(n) /\ Failed(n, "block") /\ Failed(n, "restore")
        /\ Before(n, "restore", "rmtree")

\* ------------------------------------------------------------- C4
\* C4 as claimed: whenever the block raised, the error the caller receives
\* is the block's error, received after both cleanup steps were attempted.
C4_Original ==
    \A n \in ScopeIds :
        (Finished(n) /\ Failed(n, "block")) =>
            /\ Received(n) # <<>> /\ Received(n)[1] = "BlockError"
            /\ Attempted(n, "restore") /\ Attempted(n, "rmtree")

\* C4 amended: whenever the block raised, the caller receives an error only
\* after both cleanup steps were attempted; it is the block's error when
\* neither cleanup step raised, and otherwise the error of the last cleanup
\* step that raised, with the block's error at the end of its context chain.
C4_BlockErrorPropagates ==
    \A n \in ScopeIds :
        (Finished(n) /\ Failed(n, "block")) =>
            LET r == Received(n) IN
            /\ Before(n, "block", "restore") /\ Before(n, "restore", "rmtree")
            /\ r # <<>> /\ r[Len(r)] = "BlockError"
            /\ (Ok(n, "restore") /\ Ok(n, "rmtree")) => r = <<"BlockError">>
            /\ Failed(n, "rmtree") => r[1] = "CleanupError"
            /\ (Failed(n, "restore") /\ Ok(n, "rmtree")) => r[1] = "DirectoryChangeError"

\* The block raised, both cleanup steps succeeded and the caller has the
\* block's error.
C4_Witness ==
    \E n \in ScopeIds :
        /\ pc[n] = "returned" /\ Failed(n, "block")
        /\ Ok(n, "restore") /\ Ok(n, "rmtree")
        /\ Received(n) = <<"BlockError">>

\* ------------------------------------------------------------- C5
\* C5: at the moment the block begins executing (the step that yields), the
\* temporary directory exists, is empty and is the cwd.
C5_BlockStartsInEmptyTempDir ==
    [][\A n \in ScopeIds :
          (pc[n] = "yield" /\ pc'[n] = "block") =>
              /\ temporary_directory'[n] \in fs_exists'
              /\ fs_files'[temporary_directory'[n]] = {}
              /\ cwd' = temporary_directory'[n]]_vars

\* The block of a later invocation has just begun in an empty directory
\* whose name an earlier invocation had used.
C5_Witness ==
    \E m, n \in ScopeIds :
        /\ m < n /\ pc[m] = "returned" /\ pc[n] = "block"
        /\ log[n][Len(log[n])][1] = "yield"
        /\ temporary_directory[m] = temporary_directory[n]
        /\ cwd = temporary_directory[n]
        /\ fs_files[cwd] = {}

\* ------------------------------------------------------------- C6
\* C6: whenever the delete step fails, its error is what is raised to the
\* caller (whether or not the block or the restore step failed too), and
\* the restore step was attempted before: if it succeeded, the cwd was the
\* original directory already when the deletion failed.
C6_CleanupErrorRaised ==
    \A n \in ScopeIds :
        Failed(n, "rmtree") =>
            /\ Finished(n)
            /\ Received(n) # <<>> /\ Received(n)[1] = "CleanupError"
            /\ Before(n, "restore", "rmtree")
            /\ Ok(n, "restore") => CwdAfter(n, "rmtree") = original_directory[n]

\* The block raised, the restore succeeded, the deletion failed: the caller
\* has the deletion's error in the original directory.
C6_Witness ==
    \E n \in ScopeIds :
        /\ Exited(n) /\ Failed(n, "block") /\ Ok(n, "restore") /\ Failed(n, "rmtree")
        /\ Received(n)[1] = "CleanupError"
        /\ cwd = original_directory[n]

\* ------------------------------------------------------------- C7
\* C7: whenever switching into the temporary directory or restoring the
\* original directory is rejected, the invocation fails and the
\* DirectoryChangeError reaches the caller: it is the exception raised, or,
\* when the delete step failed after it, the context of the deletion's
\* error.  No error of a step is dropped: the chain the caller receives has
\* one error per failed step.
C7_DirectoryChangeErrorSurfaced ==
    \A n \in ScopeIds :
        Finished(n) =>
            LET r == Received(n) IN
            /\ Len(r) = Cardinality({i \in 1..Len(log[n]) : ~log[n][i][2]})
            /\ (Failed(n, "chdir") \/ Failed(n, "restore")) =>
                  /\ r # <<>>
                  /\ \/ r[1] = "DirectoryChangeError"
                     \/ /\ Failed(n, "rmtree")
                        /\ r[1] = "CleanupError"
                        /\ r[2] = "DirectoryChangeError"

\* The block, the restore step and the delete step all failed.
C7_Witness ==
    \E n \in ScopeIds :
        /\ Finished(n)
        /\ Received(n) = <<"CleanupError", "DirectoryChangeError", "BlockError">>

\* ------------------------------------------------------------- C8
\* no step of in_temp_dir itself failed in invocation n, which is over
AllOk(n) ==
    /\ Finished(n) /\ Ok(n, "rmtree")
    /\ \A i \in 1..Len(log[n]) : log[n][i][1] # "block" => log[n][i][2]
\* the invocations 1..n ran one after the other, no step failing
SequenceOk(n) == \A m \in 1..n : AllOk(m)

\* C8 as claimed: N sequential invocations (no step failing) produce N
\* pairwise distinct temporary directories, none existing after its scope
\* exits, and the cwd after each is the cwd before the first.
C8_Original ==
    \A n \in ScopeIds :
        (Exited(n) /\ SequenceOk(n)) =>
            /\ \A m \in 1..(n - 1) : temporary_directory[m] # temporary_directory[n]
            /\ \A m \in 1..n : temporary_directory[m] \notin fs_exists
            /\ cwd = original_directory[1]

\* C8 amended: N sequential invocations (no step failing) produce N
\* temporary directories, each newly created (it did not exist before
\* mkdtemp made it), none existing after its scope exits, and the cwd after
\* each is the cwd before the first.  Their names need not be pairwise
\* distinct: mkdtemp may pick the name of a directory deleted before.
C8_Repeatable ==
    /\ [](\A n \in ScopeIds :
            (Exited(n) /\ SequenceOk(n)) =>
                /\ \A m \in 1..n : temporary_directory[m] \notin fs_exists
                /\ cwd = original_directory[1])
    /\ [][\A n \in ScopeIds :
            (pc[n] = "mkdtemp" /\ pc'[n] = "chdir") =>
                /\ temporary_directory'[n] \notin fs_exists
                /\ fs_exists' = fs_exists \cup {temporary_directory'[n]}]_vars

\* Two invocations in sequence, no step failing, the second in a directory
\* of the same name as the first; both are gone, the cwd is the first one.
C8_Witness ==
    \E m, n \in ScopeIds :
        /\ m < n /\ Exited(n) /\ SequenceOk(n)
        /\ temporary_directory[m] = temporary_directory[n]
        /\ temporary_directory[n] \notin fs_exists
        /\ cwd = original_directory[1]

\* ------------------------------------------------------------- C9
\* C9 as claimed: every call of the decorated callable invokes func exactly
\* once with the same arguments in a fresh temporary directory (not the
\* original one), and returns func's result or propagates func's error
\* after the restore and delete steps.
C9_Original ==
    \A n \in ScopeIds :
        (via[n] = "decorated" /\ Finished(n)) =>
            /\ Len(func_calls[n]) = 1
            /\ func_calls[n][1].passed = call[n]
            /\ func_calls[n][1].cwd = temporary_directory[n]
            /\ func_calls[n][1].cwd # original_directory[n]
            /\ Before(n, "block", "restore") /\ Before(n, "restore", "rmtree")
            /\ \/ Ok(n, "block") /\ Returned(n) = <<func(call[n].args, call[n].kwargs)>>
               \/ Failed(n, "block") /\ Received(n)[1] = "BlockError"

\* C9 amended: func is never invoked more than once; when the entry of the
\* scope succeeds it is invoked exactly once, with the same arguments, in a
\* fresh temporary directory (not the original one), and the call ends only
\* after the restore and delete steps; when neither of them fails the call
\* returns func's result or propagates func's error, when one fails its
\* error is raised instead (func's result is dropped, func's error is the
\* end of the context chain); when the entry fails func is not invoked and
\* the entry's error is raised.
C9_DecoratedCall ==
    \A n \in ScopeIds :
        via[n] = "decorated" =>
            /\ Len(func_calls[n]) <= 1
            /\ (Finished(n) /\ ~Ok(n, "chdir")) =>
                  /\ func_calls[n] = <<>>
                  /\ Received(n) # <<>> /\ Returned(n) = NoValue
            /\ (Finished(n) /\ Ok(n, "chdir")) =>
                  LET r == Received(n) IN
                  /\ Len(func_calls[n]) = 1
                  /\ func_calls[n][1].passed = call[n]
                  /\ func_calls[n][1].cwd = temporary_directory[n]
                  /\ func_calls[n][1].cwd # original_directory[n]
                  /\ Before(n, "block", "restore") /\ Before(n, "restore", "rmtree")
                  /\ (Ok(n, "restore") /\ Ok(n, "rmtree") /\ Ok(n, "block")) =>
                        /\ r = <<>>
                        /\ Returned(n) = <<func(call[n].args, call[n].kwargs)>>
                  /\ (Ok(n, "restore") /\ Ok(n, "rmtree") /\ Failed(n, "block")) =>
                        /\ r = <<"BlockError">>
                        /\ Returned(n) = NoValue
                  /\ (Failed(n, "restore") \/ Failed(n, "rmtree")) =>
                        /\ r # <<>> /\ r[1] \in {"DirectoryChangeError", "CleanupError"}
                        /\ Returned(n) = NoValue
                        /\ Failed(n, "block") => r[Len(r)] = "BlockError"

\* The scenario: f(x, y=2) called with (3) returned 5, having run in the
\* temporary directory.
C9_Witness ==
    \E n \in ScopeIds :
        /\ via[n] = "decorated" /\ pc[n] = "returned"
        /\ call[n] = [args |-> <<3>>, kwargs |-> {}]
        /\ Returned(n) = <<5>>
        /\ func_calls[n][1].cwd = temporary_directory[n]

\* ------------------------------------------------------------- C10
\* C10 as claimed: after a failing invocation the cwd is the original
\* directory or, only if the restore step failed, the invocation's own
\* temporary directory; never another location.
C10_Original ==
    \A n \in ScopeIds :
        (Exited(n) /\ Received(n) # <<>> /\ Ok(n, "getcwd")) =>
            \/ cwd = original_directory[n]
            \/ Failed(n, "restore") /\ cwd = temporary_directory[n]

\* C10 amended: after a failing invocation the cwd is the original
\* directory or, only if the restore step failed, the directory that was
\* current when the block finished: the invocation's own temporary
\* directory unless the block itself changed directory.
C10_CwdAfterFailure ==
    \A n \in ScopeIds :
        (Exited(n) /\ Received(n) # <<>> /\ Ok(n, "getcwd")) =>
            \/ cwd = original_directory[n]
            \/ /\ Failed(n, "restore")
               /\ cwd = CwdAfter(n, "block")
               /\ cwd # temporary_directory[n] => CwdAfter(n, "block") # CwdAfter(n, "yield")

\* The block changed to a third directory and the restore step failed.
C10_Witness ==
    \E n \in ScopeIds :
        /\ Exited(n) /\ Failed(n, "restore")
        /\ cwd = CwdAfter(n, "block")
        /\ cwd \notin {temporary_directory[n], original_directory[n]}

\* ------------------------------------------------------------- C11
\* invocation n is running directly inside the block of invocation m
Inner(m, n) ==
    \E t \in Threads : \E i \in 1..(Len(stack[t]) - 1) :
        stack[t][i] = m /\ stack[t][i + 1] = n
\* invocation n has been entered since invocation m was
StartedIn(m, n) == m < n /\ pc[n] # "new"

\* C11 as claimed: a scope entered inside the block of another (no step
\* failing) records the outer temporary directory as its original
\* directory, its exit restores the cwd to the outer temporary directory
\* and deletes only its own directory (the outer one still exists), and the
\* outer exit then restores the initial cwd and deletes the outer directory.
C11_Original ==
    \A m, n \in ScopeIds :
        /\ (Inner(m, n) /\ Ok(n, "getcwd")) =>
              original_directory[n] = temporary_directory[m]
        /\ (Inner(m, n) /\ Exited(n) /\ AllOk(n)) =>
              /\ cwd = temporary_directory[m]
              /\ temporary_directory[n] \notin fs_exists
              /\ temporary_directory[m] \in fs_exists
        /\ (StartedIn(m, n) /\ Exited(m) /\ AllOk(m) /\ AllOk(n)) =>
              /\ cwd = original_directory[m]
              /\ temporary_directory[m] \notin fs_exists

\* C11 amended: nested scopes unwind in LIFO order with independent state.
\* While the inner scope runs the outer one stays in its block.  The inner
\* scope records as its original directory the cwd at its entry (the outer
\* temporary directory unless the outer block changed directory before) and
\* creates a directory other than the outer one; no step changes a local
\* that is already assigned; the inner exit (no step failing) restores the
\* cwd to the directory the inner scope recorded and deletes only the inner
\* directory, the outer one still exists; the outer exit then restores the
\* outer scope's original directory and deletes the outer directory.
C11_NestedLifo ==
    /\ [](\A m, n \in ScopeIds :
            /\ Inner(m, n) =>
                  /\ pc[m] = "block"
                  /\ temporary_directory[m] \in fs_exists
                  /\ Ok(n, "getcwd") =>
                        /\ original_directory[n] = CwdAfter(n, "getcwd")
                        /\ (CwdAfter(m, "yield") = CwdAfter(n, "getcwd"))
                              => original_directory[n] = temporary_directory[m]
                  /\ pc[n] \in {"mkdtemp", "chdir"} => original_directory[n] = cwd
                  /\ Ok(n, "mkdtemp") => temporary_directory[n] # temporary_directory[m]
                  /\ (Exited(n) /\ AllOk(n)) =>
                        /\ cwd = original_directory[n]
                        /\ temporary_directory[n] \notin fs_exists
            /\ (StartedIn(m, n) /\ Exited(m) /\ AllOk(m) /\ AllOk(n)) =>
                  /\ cwd = original_directory[m]
                  /\ temporary_directory[m] \notin fs_exists
                  /\ (\A k \in ScopeIds : StartedIn(m, k) => AllOk(k))
                        => temporary_directory[n] \notin fs_exists)
    /\ [][\A n \in ScopeIds :
            /\ original_directory[n] # NoPath => original_directory'[n] = original_directory[n]
            /\ temporary_directory[n] # NoPath => temporary_directory'[n] = temporary_directory[n]
            /\ (pc[n] = "rmtree" /\ pc'[n] = "exit") =>
                  /\ fs_exists \ fs_exists' \subseteq {temporary_directory[n]}
                  /\ fs_exists' \subseteq fs_exists]_vars

\* The outer scope has exited after an inner scope that had recorded the
\* outer temporary directory: no step failed, both directories are gone and
\* the cwd is the outer scope's original directory.
C11_Witness ==
    \E m, n \in ScopeIds :
        /\ StartedIn(m, n) /\ Exited(m) /\ AllOk(m) /\ AllOk(n)
        /\ original_directory[n] = temporary_directory[m]
        /\ original_directory[m] \in HomeDirs
        /\ cwd = original_directory[m]
        /\ temporary_directory[m] \notin fs_exists

\* ------------------------------------------------------------- C12
\* invocation n takes its rmtree step in this transition
RmtreeStep(n) == Count(n, "rmtree")' = Count(n, "rmtree") + 1

\* C12: for each scope whose block was entered, the recursive deletion of
\* its temporary directory is attempted exactly once, only after its block
\* has finished and never while the block is executing; the deletion step
\* touches no directory other than the one the scope created.
C12_DeletedOnceAfterBlock ==
    /\ [](\A n \in ScopeIds :
            /\ Count(n, "rmtree") <= 1
            /\ (Entered(n) /\ Finished(n)) => Count(n, "rmtree") = 1
            /\ Attempted(n, "rmtree") =>
                  /\ Before(n, "yield", "block")
                  /\ Before(n, "block", "rmtree")
                  /\ Pos(n, "rmtree") = Len(log[n])
            /\ pc[n] \in {"yield", "block"} => ~Attempted(n, "rmtree"))
    /\ [][\A n \in ScopeIds :
            RmtreeStep(n) =>
                /\ pc[n] = "rmtree"
                /\ temporary_directory[n] = CwdAfter(n, "chdir")
                /\ \A d \in AllPaths \ {temporary_directory[n]} :
                      /\ (d \in fs_exists') = (d \in fs_exists)
                      /\ fs_files'[d] = fs_files[d]]_vars

\* A scope whose block wrote files, left its directory and raised has
\* finished with one deletion attempt, made after the block, which removed
\* the directory; another directory with files in it is still there.
C12_Witness ==
    \E n \in ScopeIds :
        /\ Finished(n) /\ Entered(n)
        /\ Failed(n, "block")
        /\ Count(n, "rmtree") = 1 /\ Ok(n, "rmtree")
        /\ Before(n, "block", "rmtree")
        /\ CwdAfter(n, "block") # temporary_directory[n]
        /\ temporary_directory[n] \notin fs_exists
        /\ \E d \in fs_exists : fs_files[d] # {}

\* ------------------------------------------------------------- C13
\* entry of invocation n failed: mkdtemp or the chdir into the new directory
EntryFailed(n) == Failed(n, "mkdtemp") \/ Failed(n, "chdir")

\* C13: if entry fails (creating the temporary directory fails, or switching
\* into it fails), the block is never executed, no restore or delete step
\* is attempted, the entry error reaches the caller, and the cwd is left at
\* its pre-entry value.
C13_EntryFailure ==
    \A n \in ScopeIds :
        EntryFailed(n) =>
            /\ Finished(n)
            /\ ~Attempted(n, "yield") /\ ~Attempted(n, "block")
            /\ func_calls[n] = <<>> /\ ret[n] = NoValue
            /\ ~Attempted(n, "restore") /\ ~Attempted(n, "rmtree")
            /\ Failed(n, "mkdtemp") => Received(n) = <<"CreationError">>
            /\ Failed(n, "chdir") => Received(n) = <<"DirectoryChangeError">>
            /\ \A i \in 1..Len(log[n]) : log[n][i][3] = CwdAfter(n, "getcwd")
            /\ Exited(n) =>
                  /\ cwd = CwdAfter(n, "getcwd")
                  /\ cwd = original_directory[n]

\* A decorated call whose chdir into the created directory was rejected has
\* reached its caller with the error; an earlier invocation's entry failed
\* in mkdtemp.
C13_Witness ==
    \E m, n \in ScopeIds :
        /\ Failed(m, "mkdtemp") /\ pc[m] = "returned"
        /\ Failed(n, "chdir") /\ pc[n] = "returned"
        /\ via[n] = "decorated"
        /\ Received(n) = <<"DirectoryChangeError">>

\* ------------------------------------------------------------- C14
\* every scope that was entered has exited and no step of any raised
AllExitedOk ==
    /\ \E n \in ScopeIds : pc[n] # "new"
    /\ \A n \in ScopeIds : pc[n] # "new" => (pc[n] = "returned" /\ AllOk(n))
\* scopes m and n ran at the same time: n was entered while the cwd was
\* the temporary directory of m
Interleaved(m, n) ==
    /\ m # n
    /\ pc[m] # "new" /\ pc[n] # "new"
    /\ original_directory[n] = temporary_directory[m]

\* C14: with two threads running in_temp_dir on the shared cwd, no step
\* raising, the cwd after all scopes have exited is the directory that was
\* current before any scope was entered unless scopes were interleaved, and
\* then it can be a temporary directory that has been deleted (the state the
\* witness reaches); it is never anything else.
C14_SharedCwd ==
    AllExitedOk =>
        \/ cwd = StartDirectory
        \/ /\ cwd \in TmpPaths
           /\ cwd \notin fs_exists
           /\ \E m, n \in ScopeIds : Interleaved(m, n) /\ cwd = temporary_directory[m]

\* Both threads ran one scope each, no step raised, both scopes have exited,
\* and the cwd is not the start directory: it is the deleted temporary
\* directory of one of them.
C14_Witness ==
    /\ AllExitedOk
    /\ \A n \in ScopeIds : pc[n] = "returned"
    /\ \A t \in AllThreads : stack[t] = <<>>
    /\ \E m, n \in ScopeIds :
          /\ Interleaved(m, n)
          /\ original_directory[m] = StartDirectory
          /\ cwd = temporary_directory[m]
    /\ cwd # StartDirectory
    /\ cwd \notin fs_exists

\* ------------------------------------------------------------- C15
\* within_temp_dir is applied in this transition
WrappingStep == ~wrapped /\ wrapped'
\* the next call of decorated starts in this transition, as invocation n
CallStep(n) == pc[n] = "new" /\ pc'[n] # "new"
\* invocation n creates its temporary directory in this transition
MkdtempStep(n) == pc[n] = "mkdtemp" /\ pc'[n] = "chdir"

\* C15 as claimed, in its last part: k calls of one decorated callable use k
\* distinct temporary directories.
C15_Original ==
    \A m, n \in ScopeIds :
        (m < n /\ via[m] = "decorated" /\ via[n] = "decorated"
            /\ Ok(m, "mkdtemp") /\ Ok(n, "mkdtemp"))
        => temporary_directory[m] # temporary_directory[n]

\* C15 amended: applying within_temp_dir has no effect by itself (no
\* directory is created, the cwd and every invocation are as before); a
\* scope is entered only by a call of decorated; every call enters its own
\* fresh scope: a new invocation with its own record of the cwd at the call
\* and its own temporary directory, which did not exist before the call
\* created it and which func is called in.  (The path names of calls that
\* do not overlap need not differ.)
C15_DecoratorScope ==
    /\ [](/\ ~wrapped =>
                /\ \A n \in ScopeIds : pc[n] = "new" /\ log[n] = <<>>
                /\ fs_exists = HomeDirs
                /\ cwd \in HomeDirs
          /\ \A n \in ScopeIds :
                pc[n] # "new" =>
                    /\ via[n] = "decorated" /\ call[n] \in Calls
                    /\ Ok(n, "getcwd") => original_directory[n] = CwdAfter(n, "getcwd")
                    /\ Len(func_calls[n]) <= 1
                    /\ Entered(n) =>
                          /\ Len(func_calls[n]) = 1
                          /\ func_calls[n][1].cwd = temporary_directory[n]
          /\ \A m, n \in ScopeIds :
                (m < n /\ pc[n] # "new") => pc[m] = "returned")
    /\ [][/\ WrappingStep =>
                UNCHANGED <<cwd, fs_exists, fs_files, next_scope, stack, pc, via,
                            original_directory, temporary_directory, exc, log,
                            call, func_calls, ret>>
          /\ \A n \in ScopeIds :
                /\ CallStep(n) =>
                      /\ wrapped
                      /\ n = next_scope /\ next_scope' = n + 1
                      /\ original_directory[n] = NoPath
                      /\ temporary_directory[n] = NoPath
                      /\ UNCHANGED <<cwd, fs_exists, fs_files>>
                /\ MkdtempStep(n) =>
                      /\ temporary_directory'[n] \notin fs_exists
                      /\ fs_exists' = fs_exists \cup {temporary_directory'[n]}
                      /\ fs_files'[temporary_directory'[n]] = {}]_vars

\* within_temp_dir has been applied and decorated was called twice: both
\* calls ran func in a directory they created themselves, under the same
\* path name, and have returned func's value; the directory is gone.
C15_Witness ==
    /\ wrapped
    /\ \E m, n \in ScopeIds :
          /\ m < n
          /\ pc[m] = "returned" /\ pc[n] = "returned"
          /\ AllOk(m) /\ AllOk(n)
          /\ Returned(m) # NoValue /\ Returned(n) # NoValue
          /\ Len(func_calls[m]) = 1 /\ Len(func_calls[n]) = 1
          /\ temporary_directory[m] = temporary_directory[n]
          /\ temporary_directory[m] \notin fs_exists
          /\ temporary_directory[n] \notin fs_exists

=============================================================================
